---------------------------- MODULE Spec2Model ----------------------------
(***************************************************************************)
(* Model of worker.js: the agent's version sync of logic.js (connect,      *)
(* update_logic_file, logic_uptodate), its heartbeat timers and the        *)
(* execute_task handler with its suspensions at every await.               *)
(***************************************************************************)
EXTENDS Naturals, Sequences, FiniteSets, TLC

\* ------------------------------------------------------------------ bounds
MaxTasks == 2        \* execute_task messages in a run of concurrent tasks
MaxRouted == 1       \* execute_task messages in a run of SpecRouting
MaxSyncTasks == 1    \* execute_task messages in a run of SpecSync or SpecHeartbeat
MaxUpdates == 1      \* update_logic_file messages delivered in one run
MaxConnects == 2     \* connection-established events in one run
MaxHeartbeats == 1   \* heartbeat timer callbacks fired in one run
MaxProgress == 2     \* progress callback invocations in one run

\* ------------------------------------------------------------------ state
VARIABLES
    disk,       \* the content of logic.js (LOGIC_PATH)
    logic,      \* the variable `logic` of line 57
    connected,  \* whether the socket is connected
    timers,     \* the heartbeat intervals set so far (none is ever cleared)
    out,        \* every socket.emit so far, in order
    tasks,      \* one record per execute_task handler invocation, in order of receipt
    updates,    \* the update_logic_file messages handled so far
    lastUpdate, \* the latest update_logic_file message and whether line 123 was reached
    alive       \* the process has not been terminated

vars == <<disk, logic, connected, timers, out, tasks, updates, lastUpdate, alive>>

\* ------------------------------------------------------- the logic file
\* JavaScript's undefined (a missing field, an unassigned variable).
Undefined == "undefined"

\* Contents logic.js can hold.  "placeholder" is the text line 39 writes,
\* "empty" a file truncated by a failed write, "broken" text that require()
\* cannot evaluate, "batchOnly" a module exporting processBatch alone, "v1"
\* and "v2" two versions of the complete logic.
Contents == {"placeholder", "empty", "broken", "batchOnly", "v1", "v2"}

\* Whether require() of the content returns (TRUE) or throws (FALSE).
Parses(c) == c # "broken"

AllCapabilities == {"processBatch", "verifyLoginDetails", "getInventoryList", "verifyMeter"}

\* The functions module.exports of the content carries.
Exports(c) ==
    CASE c \in {"v1", "v2"} -> AllCapabilities
      [] c = "batchOnly" -> {"processBatch"}
      [] OTHER -> {}

\* crypto.createHash('md5').update(buffer).digest('hex') of each content.
Md5(c) ==
    CASE c = "placeholder" -> "md5:3f0c"
      [] c = "empty" -> "md5:d41d"
      [] c = "broken" -> "md5:9a1e"
      [] c = "batchOnly" -> "md5:77b2"
      [] c = "v1" -> "md5:c4ca"
      [] c = "v2" -> "md5:c81e"

\* No logic.js on disk.
NoFile == "nofile"
NullHash == "null"

\* The hash of the content the loaded module came from, not of the file.
getLocalHashOfLoaded(d) == IF logic.src = Undefined THEN NullHash ELSE Md5(logic.src)

getLocalHash(d) == IF d = NoFile THEN NullHash ELSE Md5(d)

\* The value of the variable `logic`: undefined until a require() has
\* returned, afterwards the module object of the latest require() that
\* returned.  gen tells apart the objects of successive require() calls.
NoModule == [src |-> Undefined, gen |-> 0]
Module(c, g) == [src |-> c, gen |-> g]

\* What module object l offers as property name.
HasCapability(l, name) == l # NoModule /\ name \in Exports(l.src)

\* loadLogic() dropping the module when require() throws.
loadLogicClearing(l, d) ==
    IF d # NoFile /\ Parses(d)
    THEN [logic |-> Module(d, l.gen + 1), ret |-> "processBatch" \in Exports(d)]
    ELSE [logic |-> NoModule, ret |-> FALSE]

\* loadLogic() assigning `logic` only when the new module has processBatch.
loadLogicKeepingCapable(l, d) ==
    IF d # NoFile /\ Parses(d) /\ "processBatch" \in Exports(d)
    THEN [logic |-> Module(d, l.gen + 1), ret |-> TRUE]
    ELSE [logic |-> l, ret |-> FALSE]

\* loadLogic() with `logic` = l and d on disk: the new value of `logic` and
\* the value returned.  require() throwing leaves `logic` as it was; a
\* require() that returns assigns `logic` before processBatch is looked at.
loadLogic(l, d) ==
    IF d # NoFile /\ Parses(d)
    THEN LET m == Module(d, l.gen + 1)
         IN  [logic |-> m, ret |-> HasCapability(m, "processBatch")]
    ELSE [logic |-> l, ret |-> FALSE]

\* The test of line 140 without its second half.
LogicReadyLoadedOnly(l) == l # NoModule

\* The test of line 140, negated: the handler goes on to run the task.
LogicReady(l) == l # NoModule /\ HasCapability(l, "processBatch")


\* ------------------------------------------------------- inbound messages
\* The coordinator gives every task a request id of its own: the n-th
\* execute_task message carries the n-th id, or none at all.
RequestId(n) == "req-" \o ToString(n)
TaskTypes == {"METER_POST", "FAST_POST", "LOGIN_CHECK", "INVENTORY", "SINGLE_CHECK", "BOGUS"}
BatchTypes == {"METER_POST", "FAST_POST"}

\* payload.limit: absent, null or a number.
NoLimit == [kind |-> "undefined"]
NullLimit == [kind |-> "null"]
NumLimit(n) == [kind |-> "number", n |-> n]
Limits == {NoLimit, NullLimit, NumLimit(0), NumLimit(10)}

NoPayload == [kind |-> "undefined"]
Payload(lim) ==
    [kind |-> "object", userid |-> "user", password |-> "pass",
     meters |-> <<"m1", "m2">>, meterNo |-> "m1", limit |-> lim]
Payloads == {NoPayload} \cup {Payload(lim) : lim \in Limits}

\* The data of an update_logic_file message.
UpdateMessages == [content : Contents]

\* ------------------------------------------- what the logic module answers
Return(v) == [kind |-> "return", value |-> v]
Throw(msg) == [kind |-> "throw", message |-> msg]

LoginOk == [success |-> TRUE, cookies |-> "cookie-A"]
LoginFailure(msg) == [success |-> FALSE, message |-> msg]
LoginOutcomes ==
    {Return(LoginOk), Return(LoginFailure("Invalid password")), Throw("ETIMEDOUT")}
BatchOutcomes == {Return([posted |-> 2, failed |-> 0]), Throw("ECONNRESET")}
InventoryOutcomes == {Return(<<"m1", "m2">>), Throw("ECONNRESET")}
MeterOutcomes ==
    {Return([found |-> TRUE, data |-> "meter m1"]), Return([found |-> FALSE]),
     Throw("ECONNRESET")}
ProgressValues ==
    {[current |-> 1, total |-> 2, status |-> "OK"], [current |-> 2, total |-> 2, status |-> "FAILED"]}

\* ------------------------------------------------------ outbound messages
CheckVersion(h) == [ev |-> "check_version", hash |-> h]
HeartbeatMsg == [ev |-> "heartbeat"]
TaskProgress(rid, p) == [ev |-> "task_progress", requestId |-> rid, progress |-> p]
TaskCompleted(rid, res) == [ev |-> "task_completed", requestId |-> rid, result |-> res]

CountEv(o, ev) == Cardinality({i \in 1..Len(o) : o[i].ev = ev})

\* --------------------------------------------------------- execute_task
TypeErrorPayload == "Cannot read properties of undefined"
TypeErrorNotAFunction == "is not a function"
DefaultLimit == 50

\* The result of the catch clause, line 198.
ErrorResult(msg) == [error |-> msg, failed |-> 1]

\* payload.limit || 50
LimitOrDefault(lim) ==
    IF lim.kind = "number" /\ lim.n # 0 THEN lim.n ELSE DefaultLimit

\* The arguments the handler passes to capability cap.
CallArgs(cap, payload, auth) ==
    CASE cap = "processBatch" ->
            [userid |-> payload.userid, password |-> payload.password, meters |-> payload.meters]
      [] cap = "verifyLoginDetails" ->
            [userid |-> payload.userid, password |-> payload.password]
      [] cap = "getInventoryList" ->
            [cookies |-> auth.cookies, limit |-> LimitOrDefault(payload.limit)]
      [] cap = "verifyMeter" ->
            [cookies |-> auth.cookies, meterNo |-> payload.meterNo]

\* The handler evaluating logic.<cap>(...) with `logic` = l, the value the
\* variable has at this call (every call reads it anew: lines 160, 164,
\* 170, 177, 184, 188): the arguments
\* are evaluated first (payload.userid throws on an absent payload), then
\* the call is made (a missing capability throws).  Either exception is
\* caught at line 196 and ends the task; otherwise the handler suspends at
\* waitAt.  Yields the task's next pc, the call made and what is emitted.
InvokeStep(l, t, cap, auth, waitAt) ==
    IF t.payload = NoPayload
    THEN [pc |-> "done", call |-> <<>>,
          emit |-> <<TaskCompleted(t.requestId, ErrorResult(TypeErrorPayload))>>]
    ELSE IF ~HasCapability(l, cap)
    THEN [pc |-> "done", call |-> <<>>,
          emit |-> <<TaskCompleted(t.requestId, ErrorResult(TypeErrorNotAFunction))>>]
    ELSE [pc |-> waitAt,
          call |-> <<[cap |-> cap, module |-> l,
                      args |-> CallArgs(cap, t.payload, auth)]>>,
          emit |-> <<>>]

\* The handler ending, with requestId shared by the handler invocations: a
\* handler that was suspended reports under the id of the message received
\* last.
FinishSharedId(t, res) ==
    [pc |-> "done", call |-> <<>>,
     emit |-> <<TaskCompleted(IF "pc" \in DOMAIN t THEN tasks[Len(tasks)].requestId
                              ELSE t.requestId, res)>>]

\* The handler ending with result res (lines 201-202).
Finish(t, res) ==
    [pc |-> "done", call |-> <<>>, emit |-> <<TaskCompleted(t.requestId, res)>>]

\* The results the handler builds itself.
\* The unknown type reported the way a caught exception is.
UnknownTaskResultAsFailure == [error |-> "Unknown Task Type", failed |-> 1]

UnknownTaskResult == [error |-> "Unknown Task Type"]

\* The login failure of INVENTORY reported without the login's message.
InventoryLoginFailedNoMessage(auth) == [error |-> "Login Failed"]

InventoryLoginFailed(auth) == [error |-> "Login Failed: " \o auth.message]
InventoryResult(data) == [status |-> "success", count |-> Len(data), data |-> data]

\* The login failure of SINGLE_CHECK reported the way INVENTORY reports it.
SingleLoginFailedWithMessage(auth) == [error |-> "Login Failed: " \o auth.message]

SingleLoginFailed(auth) == [error |-> "Login Failed"]
MeterResult(check) ==
    IF check.found THEN [status |-> "found", data |-> check.data]
    ELSE [status |-> "not_found"]

\* The switch of line 157, up to the first await.
Dispatch(l, t) ==
    CASE t.taskType \in BatchTypes -> InvokeStep(l, t, "processBatch", LoginOk, "processBatch")
      [] t.taskType = "LOGIN_CHECK" -> InvokeStep(l, t, "verifyLoginDetails", LoginOk, "loginCheck")
      [] t.taskType = "INVENTORY" -> InvokeStep(l, t, "verifyLoginDetails", LoginOk, "inventoryLogin")
      [] t.taskType = "SINGLE_CHECK" -> InvokeStep(l, t, "verifyLoginDetails", LoginOk, "singleLogin")
      [] OTHER -> Finish(t, UnknownTaskResult)

\* The catch clause swallowing the exception: the handler ends and reports
\* nothing.
CaughtSilently(t, o) == [pc |-> "done", call |-> <<>>, emit |-> <<>>]

\* An awaited call threw: the catch clause of line 196.
Caught(t, o) == Finish(t, ErrorResult(o.message))

\* The handler resuming at an await with outcome o of the awaited call,
\* `logic` being l at that moment.
Resume(l, t, o) ==
    IF o.kind = "throw" THEN Caught(t, o)
    ELSE CASE t.pc \in {"processBatch", "loginCheck"} -> Finish(t, o.value)
           [] t.pc = "inventoryLogin" ->
                IF ~o.value.success
                THEN Finish(t, InventoryLoginFailed(o.value))
                ELSE InvokeStep(l, t, "getInventoryList", o.value, "getInventoryList")
           [] t.pc = "getInventoryList" -> Finish(t, InventoryResult(o.value))
           [] t.pc = "singleLogin" ->
                IF ~o.value.success
                THEN Finish(t, SingleLoginFailed(o.value))
                ELSE InvokeStep(l, t, "verifyMeter", o.value, "verifyMeter")
           [] t.pc = "verifyMeter" -> Finish(t, MeterResult(o.value))

\* The outcomes the call a task is suspended at can have.
Outcomes(pc) ==
    CASE pc = "processBatch" -> BatchOutcomes
      [] pc \in {"loginCheck", "inventoryLogin", "singleLogin"} -> LoginOutcomes
      [] pc = "getInventoryList" -> InventoryOutcomes
      [] pc = "verifyMeter" -> MeterOutcomes
      [] OTHER -> {}

Suspended(t) == Outcomes(t.pc) # {}

\* The record of a handler invocation: the fields of the message, where the
\* handler stands, the capability calls it made, what they answered and the
\* values its progress callback was called with.
NewTask(d, pc, calls) ==
    [requestId |-> d.requestId, taskType |-> d.taskType, payload |-> d.payload,
     pc |-> pc, calls |-> calls, returns |-> <<>>, progress |-> <<>>]

\* socket.on('execute_task'), from the message's arrival to the first await.
\* requestId.substring of line 147 throws outside the try on a missing
\* requestId: the async handler's promise is rejected and nobody handles
\* it, which terminates the process or not, as the runtime is configured.
ExecuteTask(d) ==
    /\ alive /\ connected
    /\ IF ~LogicReady(logic)
       THEN /\ out' = Append(out, CheckVersion(getLocalHash(disk)))
            /\ tasks' = Append(tasks, NewTask(d, "rejected", <<>>))
            /\ alive' = alive
       ELSE IF d.requestId = Undefined
       THEN /\ out' = out
            /\ tasks' = Append(tasks, NewTask(d, "unhandled", <<>>))
            /\ alive' \in BOOLEAN
       ELSE LET s == Dispatch(logic, d)
            IN  /\ out' = out \o s.emit
                /\ tasks' = Append(tasks, NewTask(d, s.pc, s.call))
                /\ alive' = alive
    /\ UNCHANGED <<disk, logic, connected, timers, updates, lastUpdate>>

\* The awaited call of task i settles, returning or throwing, and the
\* handler runs on to its next await or to its end.
CapabilityReturns(i) ==
    /\ alive
    /\ i \in 1..Len(tasks)
    /\ \E o \in Outcomes(tasks[i].pc) :
          LET s == Resume(logic, tasks[i], o)
          IN  /\ out' = out \o s.emit
              /\ tasks' = [tasks EXCEPT ![i].pc = s.pc,
                                        ![i].calls = @ \o s.call,
                                        ![i].returns = Append(@, o)]
    /\ UNCHANGED <<disk, logic, connected, timers, updates, lastUpdate, alive>>

\* The progress callbacks sharing one requestId: each reports under the id
\* of the message received last.
SendProgressSharedId(i, p) ==
    /\ alive
    /\ i \in 1..Len(tasks)
    /\ tasks[i].calls # <<>> /\ tasks[i].calls[1].cap = "processBatch"
    /\ CountEv(out, "task_progress") < MaxProgress
    /\ out' = Append(out, TaskProgress(tasks[Len(tasks)].requestId, p))
    /\ tasks' = [tasks EXCEPT ![i].progress = Append(@, p)]
    /\ UNCHANGED <<disk, logic, connected, timers, updates, lastUpdate, alive>>

\* sendProgress (lines 150-153), the callback task i handed to
\* processBatch, called by the logic module with p: while processBatch
\* runs or, the module having kept the callback, after it has returned.
SendProgress(i, p) ==
    /\ alive
    /\ i \in 1..Len(tasks)
    /\ tasks[i].calls # <<>> /\ tasks[i].calls[1].cap = "processBatch"
    /\ CountEv(out, "task_progress") < MaxProgress
    /\ out' = Append(out, TaskProgress(tasks[i].requestId, p))
    /\ tasks' = [tasks EXCEPT ![i].progress = Append(@, p)]
    /\ UNCHANGED <<disk, logic, connected, timers, updates, lastUpdate, alive>>

\* ----------------------------------------------------------- version sync
\* The connect handler sending again the hash it sent first.
ConnectReusingHash ==
    LET sent == {k \in 1..Len(out) : out[k].ev = "check_version"}
    IN  /\ alive /\ ~connected
        /\ timers < MaxConnects
        /\ out' = Append(out, IF sent = {} THEN CheckVersion(getLocalHash(disk))
                               ELSE out[CHOOSE k \in sent : \A j \in sent : k <= j])
        /\ timers' = timers + 1
        /\ connected' = TRUE
        /\ UNCHANGED <<disk, logic, tasks, updates, lastUpdate, alive>>

\* socket.on('connect'): line 108 sends the hash, line 111 sets one more
\* interval.
Connect ==
    /\ alive /\ ~connected
    /\ timers < MaxConnects
    /\ out' = Append(out, CheckVersion(getLocalHash(disk)))
    /\ timers' = timers + 1
    /\ connected' = TRUE
    /\ UNCHANGED <<disk, logic, tasks, updates, lastUpdate, alive>>

\* The connection is lost; socket.io-client will reconnect.  No handler of
\* the agent runs.
Disconnect ==
    /\ alive /\ connected
    /\ connected' = FALSE
    /\ UNCHANGED <<disk, logic, timers, out, tasks, updates, lastUpdate, alive>>

\* socket.on('connect_error'): a log line.
ConnectError ==
    /\ alive /\ ~connected
    /\ UNCHANGED vars

\* The interval's callback held back while a task handler is suspended.
HeartbeatWhenIdle(k) ==
    /\ alive
    /\ k \in 1..timers
    /\ \A i \in 1..Len(tasks) : ~Suspended(tasks[i])
    /\ CountEv(out, "heartbeat") < MaxHeartbeats
    /\ out' = Append(out, HeartbeatMsg)
    /\ UNCHANGED <<disk, logic, connected, timers, tasks, updates, lastUpdate, alive>>

\* The callback of the k-th interval of line 111.
Heartbeat(k) ==
    /\ alive
    /\ k \in 1..timers
    /\ CountEv(out, "heartbeat") < MaxHeartbeats
    /\ out' = Append(out, HeartbeatMsg)
    /\ UNCHANGED <<disk, logic, connected, timers, tasks, updates, lastUpdate, alive>>

\* fs.writeFileSync(LOGIC_PATH, content) with d on disk: it returns with
\* the content written, or throws with the file untouched (it could not be
\* opened) or truncated (it was opened, the write failed).
WriteFileSync(d, content) ==
    {[ok |-> TRUE, disk |-> content], [ok |-> FALSE, disk |-> d], [ok |-> FALSE, disk |-> "empty"]}

\* The writes that return.
WriteReturns(d, content) == {w \in WriteFileSync(d, content) : w.ok}

NoUpdate == [content |-> Undefined, saved |-> FALSE]

\* The update handler calling loadLogic() whether the write threw or not.
UpdateLogicFileAlwaysReloading(data, w) ==
    /\ alive /\ connected
    /\ updates < MaxUpdates
    /\ updates' = updates + 1
    /\ w \in WriteFileSync(disk, data.content)
    /\ disk' = w.disk
    /\ logic' = loadLogic(logic, w.disk).logic
    /\ lastUpdate' = [content |-> data.content, saved |-> w.ok]
    /\ UNCHANGED <<connected, timers, out, tasks, alive>>

\* socket.on('update_logic_file'), the write of line 122 ending as w:
\* loadLogic() runs only after a write that returned; an exception of the
\* write is caught at line 126.
UpdateLogicFile(data, w) ==
    /\ alive /\ connected
    /\ updates < MaxUpdates
    /\ updates' = updates + 1
    /\ w \in WriteFileSync(disk, data.content)
    /\ disk' = w.disk
    /\ logic' = IF w.ok THEN loadLogic(logic, w.disk).logic ELSE logic
    /\ lastUpdate' = [content |-> data.content, saved |-> w.ok]
    /\ UNCHANGED <<connected, timers, out, tasks, alive>>

\* socket.on('logic_uptodate'): a log line.
LogicUptodate ==
    /\ alive /\ connected
    /\ UNCHANGED vars

\* ------------------------------------------------------- specification
\* logic.js as it is when the process starts: the placeholder line 39 has
\* just written, or what an earlier run left.  Line 76 loads it.
InitialContents == {"placeholder", "broken", "v1"}

InitFrom(contents) ==
    /\ disk \in contents
    /\ logic = loadLogic(NoModule, disk).logic
    /\ connected = FALSE
    /\ timers = 0
    /\ out = <<>>
    /\ tasks = <<>>
    /\ updates = 0
    /\ lastUpdate = NoUpdate
    /\ alive = TRUE

Init == InitFrom(InitialContents)

\* The execute_task messages that can come next: the fresh request id or
\* none, with the task types and payloads given.
TaskMessages(rids, types, payloads) ==
    [requestId : rids, taskType : types, payload : payloads]

NextRequestId == RequestId(Len(tasks) + 1)

\* Concurrent tasks.  The agent starts with a complete logic on disk and
\* connects once; tasks of every type arrive and the coordinator replaces
\* the logic while they run.  Writes to the disk do not fail here.
ConcurrentTypes == {"METER_POST", "LOGIN_CHECK", "INVENTORY", "SINGLE_CHECK", "BOGUS"}
ConcurrentUpdates == [content : {"v2", "batchOnly"}]

Next ==
    \/ Connect
    \/ \E data \in ConcurrentUpdates :
          \E w \in WriteReturns(disk, data.content) : UpdateLogicFile(data, w)
    \/ \E d \in TaskMessages({NextRequestId}, ConcurrentTypes, {Payload(NoLimit)}) :
          Len(tasks) < MaxTasks /\ ExecuteTask(d)
    \/ \E i \in 1..MaxTasks : CapabilityReturns(i)

Spec == InitFrom({"v1"}) /\ [][Next]_vars

\* Routing of one message at a time: every task type, with and without a
\* requestId and a payload, and every shape of payload.limit, on each kind
\* of logic an earlier run can have left on disk.
NextRouting ==
    \/ Connect
    \/ \E d \in TaskMessages({NextRequestId, Undefined}, TaskTypes, Payloads) :
          Len(tasks) < MaxRouted /\ ExecuteTask(d)
    \/ \E i \in 1..MaxRouted : CapabilityReturns(i)

SpecRouting == InitFrom({"placeholder", "batchOnly", "v1"}) /\ [][NextRouting]_vars

\* Progress reports of batch tasks.
NextProgress ==
    \/ Connect
    \/ \E d \in TaskMessages({NextRequestId}, BatchTypes, {Payload(NoLimit)}) :
          Len(tasks) < MaxTasks /\ ExecuteTask(d)
    \/ \E i \in 1..MaxTasks : CapabilityReturns(i)
    \/ \E i \in 1..MaxTasks : \E p \in ProgressValues : SendProgress(i, p)

SpecProgress == InitFrom({"v1"}) /\ [][NextProgress]_vars

\* Tasks that arrive before and after the logic is ready: the agent starts
\* on any logic, and the coordinator sends a complete logic or the
\* placeholder.  Writes to the disk do not fail here.
ReadinessUpdates == [content : {"v1", "placeholder"}]

NextReadiness ==
    \/ Connect
    \/ \E data \in ReadinessUpdates :
          \E w \in WriteReturns(disk, data.content) : UpdateLogicFile(data, w)
    \/ \E d \in TaskMessages({NextRequestId}, {"LOGIN_CHECK", "BOGUS"}, {Payload(NoLimit)}) :
          Len(tasks) < MaxTasks /\ ExecuteTask(d)
    \/ \E i \in 1..MaxTasks : CapabilityReturns(i)

SpecReadiness == Init /\ [][NextReadiness]_vars

\* Version sync: connections lost and made again, updates of every
\* content whose write returns or throws, and a task.
NextSync ==
    \/ Connect
    \/ Disconnect
    \/ ConnectError
    \/ \E data \in UpdateMessages :
          \E w \in WriteFileSync(disk, data.content) : UpdateLogicFile(data, w)
    \/ LogicUptodate
    \/ \E d \in TaskMessages({NextRequestId}, {"LOGIN_CHECK", "BOGUS"}, {Payload(NoLimit)}) :
          Len(tasks) < MaxSyncTasks /\ ExecuteTask(d)
    \/ \E i \in 1..MaxSyncTasks : CapabilityReturns(i)

SpecSync == Init /\ [][NextSync]_vars

\* Heartbeats: every connection sets an interval and none is cleared.
NextHeartbeat ==
    \/ Connect
    \/ Disconnect
    \/ \E k \in 1..MaxConnects : Heartbeat(k)
    \/ \E d \in TaskMessages({NextRequestId}, {"LOGIN_CHECK", "BOGUS"}, {Payload(NoLimit)}) :
          Len(tasks) < MaxSyncTasks /\ ExecuteTask(d)
    \/ \E i \in 1..MaxSyncTasks : CapabilityReturns(i)

SpecHeartbeat == InitFrom({"v1"}) /\ [][NextHeartbeat]_vars

\* The event loop runs a timer callback that is due: an await suspends its
\* handler and gives the loop back.  Nothing makes a capability call return.
SpecHeartbeatFair ==
    SpecHeartbeat /\ WF_vars(\E k \in 1..MaxConnects : Heartbeat(k))

\* ------------------------------------------------------------------ claims
\* The places in sequence o of the task_completed messages for request rid.
CompletedAt(o, rid) ==
    {k \in 1..Len(o) : o[k].ev = "task_completed" /\ o[k].requestId = rid}

\* A task message has just been received.
TaskReceived == Len(tasks') = Len(tasks) + 1

\* C1: an execute_task handled while no module is loaded, or while the
\* loaded module has no processBatch, emits check_version with the hash of
\* the file on disk and nothing else, and no task_completed for its
\* request id is emitted then or at any later time, also not after an
\* update has made the module ready: the task is dropped.
C1_NotReadyTaskDropped ==
    [][/\ (TaskReceived /\ (logic = NoModule \/ "processBatch" \notin Exports(logic.src)))
            => /\ out' = Append(out, CheckVersion(IF disk = NoFile THEN NullHash ELSE Md5(disk)))
               /\ tasks'[Len(tasks')].pc = "rejected"
       /\ \A i \in 1..Len(tasks) :
            tasks[i].pc = "rejected"
              => /\ tasks'[i] = tasks[i]
                 /\ CompletedAt(out', tasks[i].requestId) = {}]_vars

\* A task was dropped, the module became ready afterwards and a later task
\* ran to its end on it.
C1_Witness ==
    \E i, j \in 1..Len(tasks) :
        /\ i < j
        /\ tasks[i].pc = "rejected"
        /\ tasks[j].pc = "done" /\ tasks[j].calls # <<>>
        /\ CompletedAt(out, tasks[j].requestId) # {}
        /\ lastUpdate.saved

\* What the routing table of the handler makes of the answers task t got
\* from the logic module (t.returns), given the calls it could make.
RoutedResult(t) ==
    LET r == t.returns
        n == Len(t.returns)
    IN  IF t.taskType \notin {"METER_POST", "FAST_POST", "LOGIN_CHECK", "INVENTORY", "SINGLE_CHECK"}
        THEN [error |-> "Unknown Task Type"]
        ELSE IF n > 0 /\ r[n].kind = "throw"
        THEN [error |-> r[n].message, failed |-> 1]
        ELSE IF t.payload = NoPayload
        THEN [error |-> TypeErrorPayload, failed |-> 1]
        ELSE IF n = 0
        THEN [error |-> TypeErrorNotAFunction, failed |-> 1]
        ELSE IF t.taskType \in {"METER_POST", "FAST_POST", "LOGIN_CHECK"}
        THEN r[1].value
        ELSE IF ~r[1].value.success
        THEN IF t.taskType = "INVENTORY"
             THEN [error |-> "Login Failed: " \o r[1].value.message]
             ELSE [error |-> "Login Failed"]
        ELSE IF n = 1
        THEN [error |-> TypeErrorNotAFunction, failed |-> 1]
        ELSE IF t.taskType = "INVENTORY"
        THEN [status |-> "success", count |-> Len(r[2].value), data |-> r[2].value]
        ELSE IF r[2].value.found
        THEN [status |-> "found", data |-> r[2].value.data]
        ELSE [status |-> "not_found"]

\* C2: tasks with distinct request ids that are in flight together do not
\* mix: under every interleaving of their suspensions a task has no
\* task_completed while it is suspended (in a live process, at a call whose
\* settling resumes it),
\* exactly one once its handler has run to the end, that message carries
\* the task's own request id and the result routed from the answers that
\* task got, and no task_completed carries any other request id.
C2_NoCrossTalk ==
    /\ \A i \in 1..Len(tasks) :
          LET t == tasks[i]
              c == CompletedAt(out, t.requestId)
          IN  /\ \A j \in 1..Len(tasks) : j # i => tasks[j].requestId # t.requestId
              /\ t.pc = "done" \/ (Suspended(t) /\ alive)
              /\ Cardinality(c) = IF t.pc = "done" THEN 1 ELSE 0
              /\ \A k \in c : out[k].result = RoutedResult(t)
    /\ \A k \in 1..Len(out) :
          out[k].ev = "task_completed"
            => \E i \in 1..Len(tasks) : tasks[i].requestId = out[k].requestId

\* Two tasks were suspended together: the second one received was completed
\* first, with another result than the first.
C2_Witness ==
    /\ Len(tasks) >= 2
    /\ tasks[1].pc = "done" /\ tasks[1].returns # <<>>
    /\ tasks[2].pc = "done" /\ tasks[2].returns # <<>>
    /\ \E k1 \in CompletedAt(out, tasks[1].requestId) :
       \E k2 \in CompletedAt(out, tasks[2].requestId) :
          k2 < k1 /\ out[k1].result # out[k2].result

\* C3 (as claimed): every capability call of a task is made on the module
\* that was current when the task passed the readiness check, so the
\* getInventoryList or verifyMeter call of a task is made on the module
\* its verifyLoginDetails call was made on, whatever update is handled in
\* between.
C3_CallsOnOneModule ==
    \A i \in 1..Len(tasks) :
        \A k \in 1..Len(tasks[i].calls) :
            tasks[i].calls[k].module = tasks[i].calls[1].module

\* C4: a capability call that throws ends its task with exactly one
\* task_completed whose result is {error: <the exception's message>,
\* failed: 1}; the process stays alive and connected, which is all the
\* handler of the next execute_task message needs to run.
C4_ThrowIsReported ==
    \A i \in 1..Len(tasks) :
        LET t == tasks[i]
            n == Len(t.returns)
            c == CompletedAt(out, t.requestId)
        IN  (n > 0 /\ t.returns[n].kind = "throw")
              => /\ t.pc = "done"
                 /\ Cardinality(c) = 1
                 /\ \A k \in c : out[k].result = [error |-> t.returns[n].message, failed |-> 1]
                 /\ alive /\ connected

\* The first task ended on an exception and was reported; the second was
\* completed after it with a result that is no error.
C4_Witness ==
    /\ Len(tasks) >= 2
    /\ tasks[1].returns # <<>> /\ tasks[1].returns[Len(tasks[1].returns)].kind = "throw"
    /\ tasks[2].pc = "done" /\ tasks[2].returns # <<>>
    /\ \E k1 \in CompletedAt(out, tasks[1].requestId) :
       \E k2 \in CompletedAt(out, tasks[2].requestId) :
          k1 < k2 /\ "error" \notin DOMAIN out[k2].result

\* C5: an INVENTORY task whose verifyLoginDetails returns without success
\* and with message m ends with the result {error: "Login Failed: " + m},
\* no other field, and getInventoryList is not called for it.
C5_InventoryLoginFailure ==
    \A i \in 1..Len(tasks) :
        LET t == tasks[i]
            c == CompletedAt(out, t.requestId)
        IN  (/\ t.taskType = "INVENTORY"
             /\ t.returns # <<>>
             /\ t.returns[1].kind = "return"
             /\ ~t.returns[1].value.success)
              => /\ t.pc = "done"
                 /\ Len(t.calls) = 1 /\ t.calls[1].cap = "verifyLoginDetails"
                 /\ Cardinality(c) = 1
                 /\ \A k \in c :
                       out[k].result = [error |-> "Login Failed: " \o t.returns[1].value.message]

\* The login of an INVENTORY task failed with a message and the task was
\* completed.
C5_Witness ==
    \E i \in 1..Len(tasks) :
        /\ tasks[i].taskType = "INVENTORY"
        /\ tasks[i].returns = <<Return(LoginFailure("Invalid password"))>>
        /\ CompletedAt(out, tasks[i].requestId) # {}

\* C6: a task whose type is none of the five known ones, handled on a
\* ready module, calls no capability, and the task_completed sent for it
\* (one, when the message has a requestId) carries exactly
\* {error: "Unknown Task Type"}, with or without a payload.
C6_UnknownTaskType ==
    \A i \in 1..Len(tasks) :
        LET t == tasks[i]
            c == CompletedAt(out, t.requestId)
        IN  (/\ t.taskType \notin {"METER_POST", "FAST_POST", "LOGIN_CHECK", "INVENTORY", "SINGLE_CHECK"}
             /\ logic # NoModule
             /\ "processBatch" \in Exports(logic.src))
              => /\ t.calls = <<>> /\ t.returns = <<>>
                 /\ \A k \in c : out[k].result = [error |-> "Unknown Task Type"]
                 /\ t.requestId # Undefined => (t.pc = "done" /\ Cardinality(c) = 1)

\* A task of unknown type without a payload was completed on a ready
\* module.
C6_Witness ==
    \E i \in 1..Len(tasks) :
        /\ tasks[i].taskType = "BOGUS"
        /\ tasks[i].payload = NoPayload
        /\ LogicReady(logic)
        /\ CompletedAt(out, tasks[i].requestId) # {}

\* An update_logic_file message has just been handled.
UpdateHandled == updates' = updates + 1

\* C7: once an update_logic_file has been written without error, logic.js
\* holds the content of the message, and every check_version sent until the
\* next update carries the md5 of that content, the hash a coordinator
\* holding that content compares it with: the answer is logic_uptodate.
C7_UpdateRoundTrip ==
    [][/\ (UpdateHandled /\ lastUpdate'.saved) => disk' = lastUpdate'.content
       /\ (/\ lastUpdate.saved
           /\ Len(out') = Len(out) + 1
           /\ out'[Len(out')].ev = "check_version")
            => out'[Len(out')].hash = Md5(lastUpdate.content)]_vars

\* An update whose content cannot be loaded was written, and a check_version
\* with the hash of that content was sent after it.
C7_Witness ==
    /\ lastUpdate.saved
    /\ lastUpdate.content = "broken"
    /\ logic.src # lastUpdate.content
    /\ Len(out) >= 2
    /\ out[Len(out)].ev = "check_version"
    /\ out[Len(out)].hash = Md5("broken")
    /\ out[1].hash # Md5("broken")

\* C8: every connection-established event emits exactly one message, a
\* check_version with the md5 of what logic.js holds at that moment (null
\* without a file); nothing of an earlier connection is reused.
C8_ConnectSendsCurrentHash ==
    [][(~connected /\ connected')
          => out' = Append(out, CheckVersion(IF disk = NoFile THEN NullHash ELSE Md5(disk)))]_vars

\* Two connections with an update written between them: the second
\* check_version carries the hash of the new content, not that of the first.
C8_Witness ==
    /\ tasks = <<>>
    /\ timers = 2
    /\ Len(out) = 2
    /\ lastUpdate.saved
    /\ out[1].hash # out[2].hash
    /\ out[2].hash = Md5(lastUpdate.content)

\* C9 (as claimed), for an agent that was ready: after a successful write,
\* a reload that fails, because the content cannot be parsed or because it
\* has no processBatch, leaves the module reference and the readiness as
\* they were, and the agent lives on.
C9_FailedReloadKeepsModule ==
    [][(/\ UpdateHandled
        /\ lastUpdate'.saved
        /\ "processBatch" \in Exports(logic.src)
        /\ (~Parses(lastUpdate'.content) \/ "processBatch" \notin Exports(lastUpdate'.content)))
          => /\ ("processBatch" \in Exports(logic'.src)) = ("processBatch" \in Exports(logic.src))
             /\ logic' = logic
             /\ alive' /\ connected']_vars

\* C9 (amended): after a successful write, content that cannot be parsed
\* leaves the module reference, and with it the readiness, as it was;
\* content that parses but has no processBatch replaces the module, and
\* the agent is not ready from then on.  Either way the process lives on
\* and stays connected.
C9_FailedReload ==
    [][(UpdateHandled /\ lastUpdate'.saved)
          => /\ ~Parses(lastUpdate'.content) => logic' = logic
             /\ (Parses(lastUpdate'.content) /\ "processBatch" \notin Exports(lastUpdate'.content))
                   => /\ logic' # logic
                      /\ logic'.src = lastUpdate'.content
                      /\ "processBatch" \notin Exports(logic'.src)
             /\ alive' /\ connected']_vars

\* Content that cannot be parsed was written over a ready module, which is
\* still the one loaded.
C9_Witness ==
    /\ lastUpdate.saved
    /\ lastUpdate.content = "broken"
    /\ disk = "broken"
    /\ logic = Module("v1", 1)

\* C10: an update_logic_file whose write fails changes nothing but,
\* possibly, the file: the module reference is the same object (nothing was
\* reloaded), no message is emitted, no task is touched, and the process
\* lives on, connected, with its timers.
C10_FailedWriteChangesNothing ==
    [][(UpdateHandled /\ ~lastUpdate'.saved)
          => /\ logic' = logic
             /\ out' = out
             /\ tasks' = tasks
             /\ timers' = timers
             /\ alive' /\ connected']_vars

\* A write failed after truncating the file; the module loaded before is
\* still the one in use.
C10_Witness ==
    /\ ~lastUpdate.saved
    /\ lastUpdate.content = "v2"
    /\ disk = "empty"
    /\ logic = Module("v1", 1)

\* C11: a SINGLE_CHECK task calls verifyLoginDetails first and verifyMeter
\* at most once, only after the login has returned with success, never
\* before or beside it.  A login that returns without success ends the
\* task with exactly {error: "Login Failed"} and no verifyMeter call; a
\* verifyMeter that returns found = false ends it with exactly
\* {status: "not_found"}, one that returns found = true and data d with
\* exactly {status: "found", data: d}.
C11_SingleCheck ==
    \A i \in 1..Len(tasks) :
        LET t == tasks[i]
            r == t.returns
            c == CompletedAt(out, t.requestId)
        IN  t.taskType = "SINGLE_CHECK"
              => /\ Len(t.calls) <= 2 /\ Len(r) <= Len(t.calls)
                 /\ Len(t.calls) >= 1 => t.calls[1].cap = "verifyLoginDetails"
                 /\ Len(t.calls) = 2
                       => /\ t.calls[2].cap = "verifyMeter"
                          /\ r # <<>> /\ r[1].kind = "return" /\ r[1].value.success
                          /\ t.calls[2].args.cookies = r[1].value.cookies
                 /\ (Len(r) >= 1 /\ r[1].kind = "return" /\ ~r[1].value.success)
                       => /\ Len(t.calls) = 1
                          /\ t.pc = "done" /\ Cardinality(c) = 1
                          /\ \A k \in c : out[k].result = [error |-> "Login Failed"]
                 /\ (Len(r) = 2 /\ r[2].kind = "return")
                       => /\ t.pc = "done" /\ Cardinality(c) = 1
                          /\ \A k \in c :
                                out[k].result =
                                    IF r[2].value.found
                                    THEN [status |-> "found", data |-> r[2].value.data]
                                    ELSE [status |-> "not_found"]

\* Of two SINGLE_CHECK tasks one ended on a failed login and the other on a
\* meter that was not found.
C11_Witness ==
    \E i, j \in 1..Len(tasks) :
        /\ tasks[i].taskType = "SINGLE_CHECK" /\ tasks[j].taskType = "SINGLE_CHECK"
        /\ tasks[i].returns = <<Return(LoginFailure("Invalid password"))>>
        /\ tasks[i].pc = "done"
        /\ Len(tasks[j].returns) = 2
        /\ tasks[j].returns[2] = Return([found |-> FALSE])
        /\ tasks[j].pc = "done"

\* C12: once a connection has set an interval, the next heartbeat is
\* emitted whatever the tasks do: with n heartbeats sent so far (fewer than
\* the run allows) the next one follows, also in the runs where a task
\* stays suspended for ever because its capability call never returns.
C12_HeartbeatIndependent ==
    \A n \in 0..(MaxHeartbeats - 1) :
        (timers >= 1 /\ CountEv(out, "heartbeat") = n) ~> (CountEv(out, "heartbeat") > n)

\* A heartbeat was emitted after a task was received and while that task
\* is suspended at its call.
C12_Witness ==
    /\ out # <<>> /\ out[Len(out)].ev = "heartbeat"
    /\ \E i \in 1..Len(tasks) : Suspended(tasks[i]) /\ tasks[i].returns = <<>>

\* The capabilities a task of type ty calls.
Needs(ty) ==
    CASE ty \in {"METER_POST", "FAST_POST"} -> {"processBatch"}
      [] ty = "LOGIN_CHECK" -> {"verifyLoginDetails"}
      [] ty = "INVENTORY" -> {"verifyLoginDetails", "getInventoryList"}
      [] ty = "SINGLE_CHECK" -> {"verifyLoginDetails", "verifyMeter"}
      [] OTHER -> {}

\* C13 (as claimed): a task whose type needs a capability the loaded module
\* does not offer is treated as not ready, also when the module offers
\* processBatch: it is rejected, no capability is called for it and no
\* task_completed is sent for it.  (The module does not change in the runs
\* this is checked on.)
C13_MissingCapabilityNotReady ==
    \A i \in 1..Len(tasks) :
        LET t == tasks[i]
        IN  (/\ t.requestId # Undefined
             /\ \E cap \in Needs(t.taskType) : ~(logic # NoModule /\ cap \in Exports(logic.src)))
              => /\ t.pc = "rejected"
                 /\ t.calls = <<>>
                 /\ CompletedAt(out, t.requestId) = {}

\* C14: while the latest update_logic_file is one that was written and
\* whose content parses but has no processBatch, every execute_task
\* received is rejected: it emits check_version with the hash of the file
\* and nothing else, calls no capability and gets no task_completed, then
\* or later, whatever module was loaded before that update.
C14_IncapableUpdateRejectsTasks ==
    [][/\ (/\ TaskReceived
            /\ lastUpdate.saved
            /\ Parses(lastUpdate.content)
            /\ "processBatch" \notin Exports(lastUpdate.content))
            => /\ out' = Append(out, CheckVersion(Md5(lastUpdate.content)))
               /\ tasks'[Len(tasks')].pc = "rejected"
               /\ tasks'[Len(tasks')].calls = <<>>
       /\ \A i \in 1..Len(tasks) :
            (tasks[i].pc = "rejected" /\ tasks[i].calls = <<>>)
              => /\ tasks'[i] = tasks[i]
                 /\ CompletedAt(out', tasks[i].requestId) = {}]_vars

\* A task ran to its end on the module loaded at the start; the update then
\* installed the placeholder and the next task was rejected.
C14_Witness ==
    /\ Len(tasks) = 2
    /\ tasks[1].pc = "done" /\ tasks[1].calls # <<>>
    /\ lastUpdate = [content |-> "placeholder", saved |-> TRUE]
    /\ logic.src = "placeholder"
    /\ tasks[2].pc = "rejected"
    /\ out[Len(out)] = CheckVersion(Md5("placeholder"))
    /\ out[Len(out) - 1].ev = "task_completed"

\* C15 (as claimed): an INVENTORY task whose login returned with success
\* calls getInventoryList once, with the cookies of that login and with
\* payload.limit as the limit whenever payload.limit is a number, 0
\* included, and with 50 when it is absent or null; when the call returns
\* the result is exactly {status: "success", count: n, data: items}.
C15_InventoryLimit ==
    \A i \in 1..Len(tasks) :
        LET t == tasks[i]
            r == t.returns
            c == CompletedAt(out, t.requestId)
        IN  (/\ t.taskType = "INVENTORY"
             /\ t.payload # NoPayload
             /\ r # <<>> /\ r[1].kind = "return" /\ r[1].value.success
             /\ "getInventoryList" \in Exports(logic.src))
              => /\ Len(t.calls) = 2
                 /\ t.calls[2].cap = "getInventoryList"
                 /\ t.calls[2].args.cookies = r[1].value.cookies
                 /\ t.calls[2].args.limit =
                        IF t.payload.limit.kind = "number" THEN t.payload.limit.n ELSE 50
                 /\ (Len(r) = 2 /\ r[2].kind = "return")
                       => /\ Cardinality(c) = 1
                          /\ \A k \in c :
                                out[k].result = [status |-> "success",
                                                 count |-> Len(r[2].value),
                                                 data |-> r[2].value]

\* C16 (as claimed): whatever an execute_task message carries or lacks, its
\* handler does not fail with an unhandled error: the task is rejected as
\* not ready, or is suspended at a call, or has ended with one
\* task_completed; and the process lives on to handle the next message.
C16_NoUnhandledFailure ==
    /\ alive
    /\ \A i \in 1..Len(tasks) :
          LET t == tasks[i]
          IN  \/ t.pc = "rejected"
              \/ Suspended(t)
              \/ /\ t.pc = "done"
                 /\ \E k \in 1..Len(out) :
                       out[k].ev = "task_completed" /\ out[k].requestId = t.requestId

\* The task_progress messages of sequence o that carry request id rid, in
\* the order they were emitted.
ProgressOf(o, rid) ==
    LET IsFor(m) == m.ev = "task_progress" /\ m.requestId = rid
    IN  SelectSeq(o, IsFor)

\* C17: the task_progress messages carrying a task's request id are, one
\* for one and in the same order, the values that task's progress callback
\* was called with: none is dropped, merged, repeated or reordered; and
\* no task_progress carries the request id of anything but a task that
\* handed its callback to processBatch.
C17_ProgressForwarded ==
    /\ \A i \in 1..Len(tasks) :
          LET t == tasks[i]
          IN  ProgressOf(out, t.requestId) =
                 [k \in 1..Len(t.progress) |->
                     [ev |-> "task_progress", requestId |-> t.requestId,
                      progress |-> t.progress[k]]]
    /\ \A k \in 1..Len(out) :
          out[k].ev = "task_progress"
            => \E i \in 1..Len(tasks) :
                  /\ tasks[i].requestId = out[k].requestId
                  /\ tasks[i].taskType \in {"METER_POST", "FAST_POST"}
                  /\ tasks[i].calls # <<>>

\* Two batch tasks run together; the callback of the first was called
\* after that of the second, with another value, both while suspended.
C17_Witness ==
    /\ Len(tasks) = 2
    /\ Suspended(tasks[1]) /\ Suspended(tasks[2])
    /\ Len(tasks[1].progress) = 1 /\ Len(tasks[2].progress) = 1
    /\ tasks[1].progress # tasks[2].progress
    /\ out[Len(out)].ev = "task_progress"
    /\ out[Len(out)].requestId = tasks[1].requestId
    /\ out[Len(out) - 1].ev = "task_progress"
    /\ out[Len(out) - 1].requestId = tasks[2].requestId

\* C18 (as claimed): however many connections have been established, at
\* most one heartbeat interval is active, so one tick emits at most one
\* heartbeat.
C18_OneHeartbeatTimer == timers <= 1

\* C19 (as claimed), for the runs in which no write to logic.js has
\* failed: whenever the agent is ready, the module tasks run against was
\* loaded from the content logic.js holds now, so the hash the agent
\* reports in check_version is the hash of the code it executes.
C19_LoadedModuleIsDiskContent ==
    (/\ logic # NoModule /\ "processBatch" \in Exports(logic.src)
     /\ (updates = 0 \/ lastUpdate.saved))
        => /\ disk # NoFile /\ logic.src = disk
           /\ (IF disk = NoFile THEN NullHash ELSE Md5(disk)) = Md5(logic.src)

\* C20 (as claimed): once task_completed has been emitted for a request
\* id, no task_progress for that id is emitted afterwards, also when the
\* logic module calls the callback after processBatch has returned.
C20_CompletedIsTerminal ==
    \A k, j \in 1..Len(out) :
        (k < j /\ out[k].ev = "task_completed" /\ out[j].ev = "task_progress")
            => out[j].requestId # out[k].requestId

=============================================================================
